---------------------------- MODULE Spec2Model ----------------------------
(***************************************************************************)
(* Model of the record-linkage and derivation pipeline of app/etl.py       *)
(* (run_transformations), of the reading of its five source files          *)
(* (read_inputs, build_merged_dataframe) and of repeated calls, together   *)
(* with the column list the bulk-load script cargaMySql.py inserts.        *)
(*                                                                         *)
(* Representation of pandas values:                                        *)
(*   - a table is a sequence of rows, a row a function from column names   *)
(*     to cells;                                                           *)
(*   - a numeric cell is an integer counting hundredths (1.43 is 143);     *)
(*     NaN and Inf stand for the float values nan and +inf;                *)
(*   - a categorical code (before .map) is the integer code itself, or NaN;*)
(*   - a text cell is a sequence of tokens: a raw identifier is spelled    *)
(*     character by character (so that strip and startswith act on it), a  *)
(*     display label is one token; NA is the missing text value;           *)
(*   - a raw identifier is either an integer ([n |-> 5]) or a string       *)
(*     ([s |-> <<" ", "5">>]) until astype(str) has been applied.          *)
(* Numeric source columns are taken to have a numeric dtype and coded      *)
(* columns to hold integer codes, as read_csv produces for non-empty files.*)
(***************************************************************************)
EXTENDS Integers, Sequences, FiniteSets, TLC

VARIABLES
    dfs,               \* the input dictionary handed to run_transformations
    pc,                \* position inside run_transformations
    df_demographic,    \* working copies of the five sources
    df_response,
    df_questionnaire,
    df_mortality,
    df_dietary,
    df_merge,          \* the merged table
    columns,           \* df_merge.columns, in order
    err,               \* the exception raised, "none" while none was
    message,           \* the file the message of a not-found error names, else <<>>
    data,              \* the CSV files in DATA_PATH: file name -> table
    results            \* what the calls completed so far gave their caller

vars == <<dfs, pc, df_demographic, df_response, df_questionnaire,
          df_mortality, df_dietary, df_merge, columns, err, message, data,
          results>>

\* the state outside one invocation of run_transformations
outside == <<message, data, results>>

---------------------------------------------------------------------------
(* Values *)

NaN == -999999
Inf == 999999
NA == <<"<NA>">>

Centi(n) == n * 100

isna(x) == x = NaN

Range(f) == {f[i] : i \in DOMAIN f}

\* Nearest integer to n / d (n >= 0, d > 0), ties to the even neighbour.
RoundDiv(n, d) ==
    LET q == n \div d
        r == n % d
    IN  IF 2 * r < d THEN q
        ELSE IF 2 * r > d THEN q + 1
        ELSE IF q % 2 = 0 THEN q ELSE q + 1

\* Series.round(1)
round1(x) == IF x \in {NaN, Inf} THEN x ELSE 10 * RoundDiv(x, 10)

---------------------------------------------------------------------------
(* Text *)

RECURSIVE lstrip(_)
lstrip(s) == IF s # <<>> /\ Head(s) = " " THEN lstrip(Tail(s)) ELSE s

RECURSIVE rstrip(_)
rstrip(s) ==
    IF s # <<>> /\ s[Len(s)] = " " THEN rstrip(SubSeq(s, 1, Len(s) - 1)) ELSE s

\* str.strip(); a missing value stays missing
strip(s) == IF s = NA THEN NA ELSE rstrip(lstrip(s))

startswith(s, p) == Len(s) >= Len(p) /\ SubSeq(s, 1, Len(p)) = p

Digits == <<"0", "1", "2", "3", "4", "5", "6", "7", "8", "9">>

\* astype(str) on an identifier cell
astype_str(raw) ==
    IF "n" \in DOMAIN raw THEN <<Digits[raw.n + 1]>> ELSE raw.s


---------------------------------------------------------------------------
(* Column sets and renames *)

C_DEMOGRAPHIC == <<"SEQN_new", "RIDRETH1", "DMDEDUC2", "DMDMARTL", "DMDBORN4",
                   "WTMEC2YR", "WTINT2YR", "SDMVPSU", "SDMVSTRA">>
C_RESPONSE == <<"SEQN_new", "LBXSCR", "URXUMA", "URXUCR", "BMXWT", "BMXHT",
                "BMXBMI", "BPXSY1", "BPXSY2", "BPXSY3", "BPXSY4", "BPXDI1",
                "BPXDI2", "BPXDI3", "BPXDI4">>
C_QUEST == <<"SEQN_new", "DIQ010", "BPQ020", "MCQ160B", "MCQ160C", "MCQ160F",
             "MCQ160M", "ALQ101", "PAQ650", "PAQ665">>
C_MORT == <<"SEQN_new", "MORTSTAT", "UCOD_LEADING">>
C_DIET == <<"SEQN_new", "RIDAGEYR", "RIAGENDR">>

ren_demographic ==
    [SEQN_new |-> "id", RIDRETH1 |-> "grupo_etnico",
     DMDEDUC2 |-> "nivel_educativo", DMDMARTL |-> "estado_civil",
     DMDBORN4 |-> "pais_nacimiento", WTMEC2YR |-> "peso_muestral_examen",
     WTINT2YR |-> "peso_muestral_entrevista",
     SDMVPSU |-> "unidad_muestral_psu", SDMVSTRA |-> "estrato_muestral"]

ren_response ==
    [SEQN_new |-> "id", LBXSCR |-> "creatinina_serica(mg/dL)",
     URXUMA |-> "albumina_urinaria(mg/L)", URXUCR |-> "creatinina_urinaria(g/L)",
     BMXWT |-> "peso(kg)", BMXHT |-> "altura(cm)", BMXBMI |-> "IMC",
     BPXSY1 |-> "TAS-1", BPXSY2 |-> "TAS-2", BPXSY3 |-> "TAS-3",
     BPXSY4 |-> "TAS-4", BPXDI1 |-> "TAD-1", BPXDI2 |-> "TAD-2",
     BPXDI3 |-> "TAD-3", BPXDI4 |-> "TAD-4"]

ren_questionnaire ==
    [SEQN_new |-> "id", DIQ010 |-> "DM", BPQ020 |-> "HTA", MCQ160B |-> "IC",
     MCQ160C |-> "EC", MCQ160F |-> "ACV", MCQ160M |-> "CA",
     ALQ101 |-> "consumo_alcohol", PAQ650 |-> "actividad_fisica_moderada",
     PAQ665 |-> "actividad_fisica_vigorosa"]

ren_mortality ==
    [SEQN_new |-> "id", MORTSTAT |-> "mortalidad",
     UCOD_LEADING |-> "causa_muerte"]

ren_dietary ==
    [SEQN_new |-> "id", RIDAGEYR |-> "edad_años", RIAGENDR |-> "sexo"]

\* DataFrame.rename(columns=ren) on one row, and on the column index
rename_row(row, ren) ==
    [c \in {ren[k] : k \in DOMAIN ren} |->
        row[CHOOSE k \in DOMAIN ren : ren[k] = c]]

rename(df, ren) == [i \in DOMAIN df |-> rename_row(df[i], ren)]

rename_columns(cols, ren) == [i \in DOMAIN cols |-> ren[cols[i]]]

---------------------------------------------------------------------------
(* Recode tables *)

estado_civil_pass1 == (6 :> 1) @@ (5 :> 12) @@ (3 :> 2) @@ (4 :> 2)

\* variant: no second substitution
estado_civil_pass2_none == (12 :> 12)

estado_civil_pass2 == (12 :> 3)

\* Series.replace(d): values that are keys of d are substituted at once
replace(x, d) == IF x \in DOMAIN d THEN d[x] ELSE x

reco ==
    [grupo_etnico |->
        (1 :> "Mexicano-Americano") @@ (2 :> "Otros hispanos") @@
        (3 :> "Blanco no hispano") @@ (4 :> "Negro no hispano") @@
        (5 :> "Otra raza, incluida la multirracial"),
     nivel_educativo |->
        (1 :> "Menos de 9° grado") @@ (2 :> "9-11º (incluye 12º sin diploma)") @@
        (3 :> "Graduado secundaria / GED") @@
        (4 :> "Algún título universitario o AA") @@
        (5 :> "Graduado universitario o superior") @@ (7 :> "Negado") @@
        (9 :> "No sé"),
     estado_civil |->
        (1 :> "Casado/Viviendo con pareja") @@
        (2 :> "Viudo/Divorciado/Separado") @@ (3 :> "Nunca casado") @@
        (77 :> "Negado") @@ (99 :> "No sé"),
     pais_nacimiento |->
        (1 :> "EE. UU./Washington") @@ (2 :> "México") @@ (3 :> "Otro país") @@
        (7 :> "Negado") @@ (9 :> "No sé")]

SiNo == (1 :> "Sí") @@ (2 :> "No")

reco_2 ==
    [DM |-> SiNo @@ (3 :> "Frontera") @@ (7 :> "Negado") @@ (9 :> "No sé"),
     HTA |-> SiNo @@ (9 :> "No sé"),
     IC |-> SiNo @@ (7 :> "Negado") @@ (9 :> "No sé"),
     EC |-> SiNo @@ (7 :> "Negado") @@ (9 :> "No sé"),
     ACV |-> SiNo @@ (7 :> "Negado") @@ (9 :> "No sé"),
     CA |-> SiNo @@ (7 :> "Negado") @@ (9 :> "No sé"),
     consumo_alcohol |-> SiNo @@ (9 :> "No sé"),
     actividad_fisica_moderada |-> SiNo @@ (7 :> "Negado") @@ (9 :> "No sé"),
     actividad_fisica_vigorosa |-> SiNo @@ (7 :> "Negado") @@ (9 :> "No sé")]

reco_3 ==
    [mortalidad |-> (0 :> "Vivo") @@ (1 :> "Muerto"),
     causa_muerte |->
        (1 :> "Enf. corazón") @@ (2 :> "Neoplasmas") @@
        (3 :> "Enf. resp. crónicas") @@ (4 :> "Accidentes") @@
        (5 :> "Enf. cerebrovasculares") @@ (6 :> "Alzheimer") @@
        (7 :> "Diabetes") @@ (8 :> "Influenza/neumonía") @@
        (9 :> "Nefritis/síndrome nefrótico/nefrosis") @@ (10 :> "Otras causas")]

reco_4 == [sexo |-> (1 :> "Hombre") @@ (2 :> "Mujer")]

\* Series.map(d): a code that is no key of d (NaN included) becomes missing
map(x, d) == IF x \in DOMAIN d THEN <<d[x]>> ELSE NA

\* for col, d in r.items(): df[col] = df[col].map(d)
map_columns(row, r) ==
    [c \in DOMAIN row |-> IF c \in DOMAIN r THEN map(row[c], r[c]) ELSE row[c]]

---------------------------------------------------------------------------
(* Field Normalizer: etl.py lines 59-115 *)

recode_demographic(row) ==
    map_columns(
        [row EXCEPT
            !["estado_civil"] =
                replace(replace(@, estado_civil_pass1), estado_civil_pass2),
            !["peso_muestral_examen"] = round1(@),
            !["peso_muestral_entrevista"] = round1(@)],
        reco)

recode(df, r) == [i \in DOMAIN df |-> map_columns(df[i], r)]

---------------------------------------------------------------------------
(* Key Linker: etl.py lines 117-129 *)

\* d["id"] = d["id"].astype(str).str.strip()
clean_id(df) ==
    [i \in DOMAIN df |-> [df[i] EXCEPT !["id"] = strip(astype_str(@))]]

\* the positions drop_duplicates(subset="id", keep="first") keeps
keep_first(df, i) == \A j \in 1..(i - 1) : df[j]["id"] # df[i]["id"]

\* variant: keep="last"
keep_last(df, i) == \A j \in (i + 1)..Len(df) : df[j]["id"] # df[i]["id"]

kept(df, i) == keep_first(df, i)

drop_duplicates(df) ==
    LET RECURSIVE build(_)
        build(i) ==
            IF i > Len(df) THEN <<>>
            ELSE (IF kept(df, i) THEN <<df[i]>> ELSE <<>>) \o build(i + 1)
    IN  build(1)

is_unique(df) ==
    \A i, j \in DOMAIN df : i # j => df[i]["id"] # df[j]["id"]

\* variant: a merge without validate=
no_validate(left, right) == TRUE

\* validate="one_to_one": the keys are unique in both the left and the right table
validate_one_to_one(left, right) == is_unique(left) /\ is_unique(right)

\* the columns that hold text (dtype object or string) in the merged table
TextColumns ==
    {"id", "categoria_ACR", "categoria_eGFR"} \cup DOMAIN reco \cup
    DOMAIN reco_2 \cup DOMAIN reco_3 \cup DOMAIN reco_4

missing(c) == IF c \in TextColumns THEN NA ELSE NaN

\* left.merge(right, on="id", how="left") once validation has passed:
\* every left row once, with the matching right row's cells or missing values
merge(left, right, rcols) ==
    [i \in DOMAIN left |->
        LET m == {j \in DOMAIN right : right[j]["id"] = left[i]["id"]}
        IN  [c \in rcols \ {"id"} |->
                IF m = {} THEN missing(c)
                ELSE right[CHOOSE j \in m : \A k \in m : j <= k][c]]
            @@ left[i]]

cols_demographic == rename_columns(C_DEMOGRAPHIC, ren_demographic)
cols_response == rename_columns(C_RESPONSE, ren_response)
cols_questionnaire == rename_columns(C_QUEST, ren_questionnaire)
cols_mortality == rename_columns(C_MORT, ren_mortality)
cols_dietary == rename_columns(C_DIET, ren_dietary)

merge1 == merge(df_demographic, df_response, Range(cols_response))
merge2 == merge(merge1, df_questionnaire, Range(cols_questionnaire))
merge3 == merge(merge2, df_mortality, Range(cols_mortality))
merge4 == merge(merge3, df_dietary, Range(cols_dietary))

merge_ok ==
    /\ validate_one_to_one(df_demographic, df_response)
    /\ validate_one_to_one(merge1, df_questionnaire)
    /\ validate_one_to_one(merge2, df_mortality)
    /\ validate_one_to_one(merge3, df_dietary)

merged_columns ==
    cols_demographic \o Tail(cols_response) \o Tail(cols_questionnaire) \o
    Tail(cols_mortality) \o Tail(cols_dietary)

---------------------------------------------------------------------------
(* Derivation Engine: etl.py lines 132-158 *)

lt(x, k) == ~isna(x) /\ x < k
le(x, k) == ~isna(x) /\ x <= k
gt(x, k) == ~isna(x) /\ x > k
ge(x, k) == ~isna(x) /\ x >= k

\* (x * 0.01).round(1)
rescale(x) == IF isna(x) THEN NaN ELSE 10 * RoundDiv(x, 1000)

\* (a / b).round(1) in float arithmetic: x/0 is inf for x > 0, 0/0 is nan
divide_round1(a, b) ==
    IF isna(a) \/ isna(b) THEN NaN
    ELSE IF b = 0 THEN (IF a = 0 THEN NaN ELSE Inf)
    ELSE 10 * RoundDiv(10 * a, b)

\* variant: the A2 mask written with ACR < 300
categoria_ACR_exclusive_300(acr) ==
    LET c1 == IF lt(acr, Centi(30)) THEN <<"A1">> ELSE NA
        c2 == IF ge(acr, Centi(30)) /\ lt(acr, Centi(300)) THEN <<"A2">> ELSE c1
    IN  IF gt(acr, Centi(300)) THEN <<"A3">> ELSE c2

\* lines 135-138: the label column starts missing, three masked assignments
categoria_ACR(acr) ==
    LET c1 == IF lt(acr, Centi(30)) THEN <<"A1">> ELSE NA
        c2 == IF ge(acr, Centi(30)) /\ le(acr, Centi(300)) THEN <<"A2">> ELSE c1
    IN  IF gt(acr, Centi(300)) THEN <<"A3">> ELSE c2

derive_ACR(row) ==
    LET cu == rescale(row["creatinina_urinaria(g/L)"])
        acr == divide_round1(row["albumina_urinaria(mg/L)"], cu)
    IN  ("ACR" :> acr) @@ ("categoria_ACR" :> categoria_ACR(acr)) @@
        [row EXCEPT !["creatinina_urinaria(g/L)"] = cu]

\* 142 * min(rate,1)**alpha * max(rate,1)**-1.200 * 0.9938**age * factor with
\* rate = creat / kappa, in hundredths, for the (gender, creat, age) the inputs
\* below can produce; each entry is the float value of the expression of line 145
\* (kappa, alpha, factor = 0.7, -0.241, 1.012 for "Mujer" and 0.9, -0.302, 1.0
\* for "Hombre").
egfr_values ==
    {<<"Mujer", 414, Centi(20), 1504>>,    \* 15.0372
     <<"Mujer", 417, Centi(20), 1491>>,    \* 14.9074
     <<"Mujer", 232, Centi(21), 2994>>,    \* 29.9419
     <<"Mujer", 233, Centi(20), 2997>>,    \* 29.9736
     <<"Mujer", 163, Centi(24), 4489>>,    \* 44.8887
     <<"Mujer", 166, Centi(20), 4502>>,    \* 45.0232
     <<"Mujer", 123, Centi(32), 5988>>,    \* 59.8781
     <<"Mujer", 130, Centi(21), 6000>>,    \* 59.9975
     <<"Mujer", 90, Centi(27), 8986>>,     \* 89.8604
     <<"Mujer", 84, Centi(40), 9003>>,     \* 90.0349
     <<"Mujer", 60, Centi(50), 10928>>,    \* 109.2830
     <<"Hombre", 100, Centi(50), 9169>>,   \* 91.6915
     <<"Hombre", 90, Centi(40), 11073>>,   \* 110.7256
     <<"Hombre", 90, Centi(27), 12005>>,   \* 120.0497
     <<"Mujer", 90, Centi(40), 8288>>,     \* 82.8810
     <<"Hombre", 60, Centi(50), 11760>>}   \* 117.6028

\* calc_egfr raises ZeroDivisionError: creat reaches it as a Python float (a row
\* of the mixed-dtype frame), rate is 0.0 and 0.0 ** alpha has alpha < 0
calc_egfr_raises(creat, age, gender) ==
    gender \in {<<"Mujer">>, <<"Hombre">>} /\ creat = 0

calc_egfr(creat, age, gender) ==
    IF gender \notin {<<"Mujer">>, <<"Hombre">>} THEN NaN
    ELSE IF isna(creat) \/ isna(age) THEN NaN
    ELSE (CHOOSE e \in egfr_values :
              e[1] = gender[1] /\ e[2] = creat /\ e[3] = age)[4]

\* variant: the G1 mask written with eGFR > 90
categoria_eGFR_gap(g) ==
    LET c1 == IF gt(g, Centi(90)) THEN <<"G1">> ELSE NA
        c2 == IF ge(g, Centi(60)) /\ lt(g, Centi(90)) THEN <<"G2">> ELSE c1
        c3 == IF ge(g, Centi(45)) /\ lt(g, Centi(60)) THEN <<"G3a">> ELSE c2
        c4 == IF ge(g, Centi(30)) /\ lt(g, Centi(45)) THEN <<"G3b">> ELSE c3
        c5 == IF ge(g, Centi(15)) /\ lt(g, Centi(30)) THEN <<"G4">> ELSE c4
    IN  IF lt(g, Centi(15)) THEN <<"G5">> ELSE c5

\* lines 152-158: six masked assignments on a column that starts missing
categoria_eGFR(g) ==
    LET c1 == IF ge(g, Centi(90)) THEN <<"G1">> ELSE NA
        c2 == IF ge(g, Centi(60)) /\ lt(g, Centi(90)) THEN <<"G2">> ELSE c1
        c3 == IF ge(g, Centi(45)) /\ lt(g, Centi(60)) THEN <<"G3a">> ELSE c2
        c4 == IF ge(g, Centi(30)) /\ lt(g, Centi(45)) THEN <<"G3b">> ELSE c3
        c5 == IF ge(g, Centi(15)) /\ lt(g, Centi(30)) THEN <<"G4">> ELSE c4
    IN  IF lt(g, Centi(15)) THEN <<"G5">> ELSE c5

row_raises(row) ==
    calc_egfr_raises(row["creatinina_serica(mg/dL)"], row["edad_años"],
                     row["sexo"])

derive_eGFR(row) ==
    LET g == round1(calc_egfr(row["creatinina_serica(mg/dL)"],
                              row["edad_años"], row["sexo"]))
    IN  ("eGFR" :> g) @@ ("categoria_eGFR" :> categoria_eGFR(g)) @@ row

---------------------------------------------------------------------------
(* Reconciler: etl.py lines 160-198 *)

columns_merge ==
    <<"id", "edad_años", "sexo", "grupo_etnico", "unidad_muestral_psu",
      "estrato_muestral", "peso_muestral_entrevista", "peso_muestral_examen",
      "DM", "peso(kg)", "altura(cm)", "IMC", "creatinina_urinaria(g/L)",
      "albumina_urinaria(mg/L)", "ACR", "categoria_ACR", "mortalidad",
      "TAS-1", "TAD-1", "TAS-2", "TAD-2", "TAS-3", "TAD-3", "HTA",
      "estado_civil", "eGFR", "categoria_eGFR", "creatinina_serica(mg/dL)",
      "IC", "EC", "ACV", "nivel_educativo", "CA", "pais_nacimiento",
      "actividad_fisica_moderada", "actividad_fisica_vigorosa",
      "consumo_alcohol", "causa_muerte", "TAS-4", "TAD-4">>

\* variant: no row is excluded
exclude_none(df) == df

\* df_merge[~df_merge["id"].astype(str).str.startswith("I-")]
exclude(df) == SelectSeq(df, LAMBDA r : ~startswith(r["id"], <<"I", "-">>))

\* variant: the columns kept in the order of the frame
frame_order(cols) == SelectSeq(cols, LAMBDA c : c \in Range(columns_merge))

\* [c for c in columns_merge if c in df_merge.columns]
cols_existentes(cols) == SelectSeq(columns_merge, LAMBDA c : c \in Range(cols))

project(df, cols) == [i \in DOMAIN df |-> [c \in Range(cols) |-> df[i][c]]]

\* select_dtypes(include=["number"]) and select_dtypes(include=["object","string"])
float_columns(cols) == SelectSeq(cols, LAMBDA c : c \notin TextColumns)
str_columns(cols) == SelectSeq(cols, LAMBDA c : c \in TextColumns)

\* variant: one sentinel for every text column
sentinel_generic(col) == <<"Sin categoria">>

\* the value fillna receives for a text column, lines 179-192
sentinel(col) ==
    IF col \in {"mortalidad", "estado_civil", "sexo", "pais_nacimiento"}
        THEN <<"No definido">>
    ELSE IF col = "grupo_etnico" THEN <<"Sin etnia">>
    ELSE IF col \in {"DM", "HTA", "IC", "EC", "ACV", "CA"}
        THEN <<"Sin diagnostico">>
    ELSE IF col = "causa_muerte" THEN <<"Sin causa">>
    ELSE IF col = "categoria_ACR" THEN <<"A1(por media)">>
    ELSE IF col = "categoria_eGFR" THEN <<"G1(por media)">>
    ELSE <<"Sin categoria">>

\* .astype("string").str.strip().replace({"": pd.NA})
strip_blank(x) == IF strip(x) = <<>> THEN NA ELSE strip(x)

fill_text_row(row, cols) ==
    [c \in DOMAIN row |->
        IF c \in Range(str_columns(cols))
        THEN (IF strip_blank(row[c]) = NA THEN sentinel(c)
              ELSE strip_blank(row[c]))
        ELSE row[c]]

fill_text(df, cols) == [i \in DOMAIN df |-> fill_text_row(df[i], cols)]

\* df_merge[col].median().round(1): missing values are skipped, the median of
\* an even number of values is the mean of the two middle ones, and a column
\* with no value at all has the median nan
median_(df, c) ==
    LET v == SelectSeq([i \in DOMAIN df |-> df[i][c]], LAMBDA x : ~isna(x))
        s == SortSeq(v, LAMBDA a, b : a < b)
        n == Len(s)
    IN  IF n = 0 THEN NaN
        ELSE IF n % 2 = 1 THEN round1(s[(n + 1) \div 2])
        ELSE IF s[n \div 2 + 1] = Inf THEN Inf
        ELSE 10 * RoundDiv(s[n \div 2] + s[n \div 2 + 1], 20)

\* variant: the whole column assigned the fill value
overwrite(x, value) == value

\* Series.fillna(value): fillna(nan) changes nothing
fillna(x, value) == IF isna(x) THEN value ELSE x

fill_numeric(df, cols) ==
    [i \in DOMAIN df |->
        [c \in DOMAIN df[i] |->
            IF c \in Range(float_columns(cols))
            THEN fillna(df[i][c], median_(df, c))
            ELSE df[i][c]]]

---------------------------------------------------------------------------
(* Bulk load: cargaMySql.py lines 14-26, the columns of the INSERT *)

sql ==
    <<"id", "edad_años", "sexo", "grupo_etnico", "unidad_muestral_psu",
      "estrato_muestral", "peso_muestral_entrevista", "peso_muestral_examen",
      "DM", "peso_kg", "altura_cm", "IMC", "creatinina_urinaria",
      "albumina_urinaria", "ACR", "categoria_ACR", "mortalidad", "TAS1",
      "TAD1", "TAS2", "TAD2", "TAS3", "TAD3", "HTA", "estado_civil", "eGFR",
      "categoria_eGFR", "creatinina_serica", "IC", "EC", "ACV",
      "nivel_educativo", "CA", "pais_nacimiento", "actividad_fisica_moderada",
      "actividad_fisica_vigorosa", "consumo_alcohol", "causa_muerte", "TAS4",
      "TAD4">>

---------------------------------------------------------------------------
(* Inputs *)

\* total number of rows of the five sources in a linkage input
MaxRows == 4
\* number of subjects in a cohort input
MaxPatients == 2

DemoRow(id, ec) ==
    [c \in Range(C_DEMOGRAPHIC) |->
        CASE c = "SEQN_new" -> id
          [] c = "DMDMARTL" -> ec
          [] c = "RIDRETH1" -> 3
          [] c = "DMDEDUC2" -> 4
          [] c = "DMDBORN4" -> 1
          [] c \in {"WTMEC2YR", "WTINT2YR"} -> 1234567
          [] c = "SDMVPSU" -> Centi(1)
          [] OTHER -> Centi(125)]

RespRow(id, scr, uma, ucr, o) ==
    [c \in Range(C_RESPONSE) |->
        CASE c = "SEQN_new" -> id
          [] c = "LBXSCR" -> scr
          [] c = "URXUMA" -> uma
          [] c = "URXUCR" -> ucr
          [] OTHER -> o]

QuestRow(id, code) ==
    [c \in Range(C_QUEST) |-> IF c = "SEQN_new" THEN id ELSE code]

MortRow(id, stat, ucod) ==
    [c \in Range(C_MORT) |->
        CASE c = "SEQN_new" -> id
          [] c = "MORTSTAT" -> stat
          [] OTHER -> ucod]

DietRow(id, age, sex) ==
    [c \in Range(C_DIET) |->
        CASE c = "SEQN_new" -> id
          [] c = "RIDAGEYR" -> age
          [] OTHER -> sex]

\* raw identifiers: the integer 5, " 5", " I-7" and a blank one
Id5 == [n |-> 5]
IdSp5 == [s |-> <<" ", "5">>]
IdI7 == [s |-> <<" ", "I", "-", "7">>]
IdBlank == [s |-> <<" ">>]

LinkDemoRows == {DemoRow(id, 1) : id \in {Id5, IdSp5, IdI7, IdBlank}}
LinkRespRows ==
    {RespRow(id, 90, 1200, 12000, Centi(70)) : id \in {IdSp5, IdI7}}
LinkQuestRows == {QuestRow(id, 1) : id \in {Id5, IdSp5}}
LinkMortRows == {MortRow(id, 1, 2) : id \in {Id5, IdSp5}}
LinkDietRows ==
    {DietRow(id, Centi(27), 2) : id \in {Id5, IdSp5}} \cup
    {DietRow(id, Centi(40), 1) : id \in {Id5, IdSp5}}

\* Linkage inputs: arbitrary identifiers in every source, ordinary values
InitLinkage ==
    \E n1 \in 0..MaxRows : \E n2 \in 0..(MaxRows - n1) :
    \E n3 \in 0..(MaxRows - n1 - n2) : \E n4 \in 0..(MaxRows - n1 - n2 - n3) :
    \E n5 \in 0..(MaxRows - n1 - n2 - n3 - n4) :
        dfs \in [demographic : [1..n1 -> LinkDemoRows],
                 response : [1..n2 -> LinkRespRows],
                 questionnaire : [1..n3 -> LinkQuestRows],
                 mortality : [1..n4 -> LinkMortRows],
                 dietary : [1..n5 -> LinkDietRows]]

\* One subject of a cohort input: which sources hold a row for the subject and
\* the values of those rows
Prof(scr, age, sex, uma, ucr) ==
    [resp |-> TRUE, scr |-> scr, uma |-> uma, ucr |-> ucr, o |-> Centi(70),
     diet |-> TRUE, age |-> age, sex |-> sex,
     quest |-> TRUE, dm |-> 1, mort |-> TRUE, stat |-> 0, ec |-> 1]

Usual == Prof(60, Centi(50), 2, 1200, 12000)

Profiles ==
    {Prof(414, Centi(20), 2, 2990, 10000),     \* eGFR 15.0, ACR 29.9
     Prof(417, Centi(20), 2, 3000, 10000),     \* eGFR 14.9, ACR 30.0
     Prof(232, Centi(21), 2, 30000, 10000),    \* eGFR 29.9, ACR 300.0
     Prof(233, Centi(20), 2, 30010, 10000),    \* eGFR 30.0, ACR 300.1
     Prof(163, Centi(24), 2, NaN, 10000),      \* eGFR 44.9, albumin missing
     Prof(166, Centi(20), 2, 1200, NaN),       \* eGFR 45.0, creatinine missing
     Prof(123, Centi(32), 2, 500, 300),        \* eGFR 59.9, 0.03 g/L rounds to 0.0
     Prof(130, Centi(21), 2, 0, 0),            \* eGFR 60.0, 0 / 0
     Prof(90, Centi(27), 2, 1200, 500),        \* eGFR 89.9, 0.05 g/L rounds to 0.0
     Prof(84, Centi(40), 2, 1200, 12000),      \* eGFR 90.0
     Usual,                                    \* eGFR 109.3, ACR 10.0
     Prof(100, Centi(50), 1, 1200, 12000),     \* a man
     Prof(0, Centi(50), 2, 1200, 12000),       \* serum creatinine 0
     Prof(NaN, Centi(50), 2, 1200, 12000),     \* serum creatinine missing
     Prof(60, NaN, 2, 1200, 12000),            \* age missing
     Prof(60, Centi(50), 3, 1200, 12000),      \* sex code not in the recode table
     Prof(0, Centi(50), NaN, 1200, 12000),     \* sex missing, serum creatinine 0
     [Usual EXCEPT !.resp = FALSE],
     [Usual EXCEPT !.diet = FALSE],
     [Usual EXCEPT !.quest = FALSE, !.mort = FALSE],
     [Usual EXCEPT !.dm = 4, !.stat = NaN, !.ec = 8, !.o = NaN]}

PatientId(i) == [n |-> i]

\* the subjects that have a row in a source, in order
Subjects(f, source) == SelectSeq([i \in DOMAIN f |-> i], LAMBDA i : f[i][source])

CohortInput(f) ==
    LET r == Subjects(f, "resp")
        q == Subjects(f, "quest")
        m == Subjects(f, "mort")
        d == Subjects(f, "diet")
    IN  [demographic |->
            [i \in DOMAIN f |-> DemoRow(PatientId(i), f[i].ec)],
         response |->
            [k \in DOMAIN r |->
                RespRow(PatientId(r[k]), f[r[k]].scr, f[r[k]].uma,
                        f[r[k]].ucr, f[r[k]].o)],
         questionnaire |->
            [k \in DOMAIN q |-> QuestRow(PatientId(q[k]), f[q[k]].dm)],
         mortality |->
            [k \in DOMAIN m |-> MortRow(PatientId(m[k]), f[m[k]].stat, 2)],
         dietary |->
            [k \in DOMAIN d |->
                DietRow(PatientId(d[k]), f[d[k]].age, f[d[k]].sex)]]

\* Cohort inputs: distinct identifiers, every kind of value
InitCohort ==
    \E n \in 1..MaxPatients : \E f \in [1..n -> Profiles] :
        dfs = CohortInput(f)

---------------------------------------------------------------------------
(* run_transformations, step by step *)

\* variant: no copy, the function works on the table of the caller
no_copy(given, working) == working

\* lines 59-63, dfs[...].copy(): the function works on a table of its own, so
\* the table the caller passed stays as given whatever is assigned to the
\* working table
copy(given, working) == given

\* the input dictionary once the five working tables have been assigned to
passed(d, demo, resp, quest, mort, diet) ==
    [demographic |-> copy(d.demographic, demo),
     response |-> copy(d.response, resp),
     questionnaire |-> copy(d.questionnaire, quest),
     mortality |-> copy(d.mortality, mort),
     dietary |-> copy(d.dietary, diet)]

\* the local variables of a call that has not assigned them yet
fresh ==
    /\ df_demographic = <<>>
    /\ df_response = <<>>
    /\ df_questionnaire = <<>>
    /\ df_mortality = <<>>
    /\ df_dietary = <<>>
    /\ df_merge = <<>>
    /\ columns = <<>>
    /\ err = "none"
    /\ message = <<>>

Init ==
    /\ InitLinkage \/ InitCohort
    /\ pc = "start"
    /\ fresh
    /\ data = <<>>
    /\ results = <<>>

\* lines 59-82: copy and rename
Rename ==
    /\ pc = "start"
    /\ df_demographic' = rename(dfs.demographic, ren_demographic)
    /\ df_response' = rename(dfs.response, ren_response)
    /\ df_questionnaire' = rename(dfs.questionnaire, ren_questionnaire)
    /\ df_mortality' = rename(dfs.mortality, ren_mortality)
    /\ df_dietary' = rename(dfs.dietary, ren_dietary)
    /\ dfs' = passed(dfs, df_demographic', df_response', df_questionnaire',
                     df_mortality', df_dietary')
    /\ pc' = "renamed"
    /\ UNCHANGED <<df_merge, columns, err, outside>>

\* lines 85-115: recode
Recode ==
    /\ pc = "renamed"
    /\ df_demographic' =
           [i \in DOMAIN df_demographic |-> recode_demographic(df_demographic[i])]
    /\ df_questionnaire' = recode(df_questionnaire, reco_2)
    /\ df_mortality' = recode(df_mortality, reco_3)
    /\ df_dietary' = recode(df_dietary, reco_4)
    /\ df_response' = df_response
    /\ dfs' = passed(dfs, df_demographic', df_response', df_questionnaire',
                     df_mortality', df_dietary')
    /\ pc' = "recoded"
    /\ UNCHANGED <<df_merge, columns, err, outside>>

\* lines 117-120: identifier clean-up and dietary deduplication
CleanIds ==
    /\ pc = "recoded"
    /\ df_demographic' = clean_id(df_demographic)
    /\ df_response' = clean_id(df_response)
    /\ df_questionnaire' = clean_id(df_questionnaire)
    /\ df_mortality' = clean_id(df_mortality)
    /\ df_dietary' = drop_duplicates(clean_id(df_dietary))
    /\ dfs' = passed(dfs, df_demographic', df_response', df_questionnaire',
                     df_mortality', df_dietary')
    /\ pc' = "cleaned"
    /\ UNCHANGED <<df_merge, columns, err, outside>>

\* lines 123-129: four validated left joins; the first failing one raises
Merge ==
    /\ pc = "cleaned"
    /\ IF merge_ok
       THEN /\ df_merge' = merge4
            /\ columns' = merged_columns
            /\ pc' = "merged"
            /\ err' = err
       ELSE /\ pc' = "error"
            /\ err' = "MergeError"
            /\ UNCHANGED <<df_merge, columns>>
    /\ UNCHANGED <<dfs, df_demographic, df_response, df_questionnaire,
                   df_mortality, df_dietary, outside>>

\* lines 132-138: ratio score and its category
DeriveACR ==
    /\ pc = "merged"
    /\ df_merge' = [i \in DOMAIN df_merge |-> derive_ACR(df_merge[i])]
    /\ columns' = columns \o <<"ACR", "categoria_ACR">>
    /\ pc' = "acr"
    /\ UNCHANGED <<dfs, df_demographic, df_response, df_questionnaire,
                   df_mortality, df_dietary, err, outside>>

\* lines 140-158: filtration score, row by row, and its category
DeriveEGFR ==
    /\ pc = "acr"
    /\ IF \E i \in DOMAIN df_merge : row_raises(df_merge[i])
       THEN /\ pc' = "error"
            /\ err' = "ZeroDivisionError"
            /\ UNCHANGED <<df_merge, columns>>
       ELSE /\ df_merge' = [i \in DOMAIN df_merge |-> derive_eGFR(df_merge[i])]
            /\ columns' = columns \o <<"eGFR", "categoria_eGFR">>
            /\ pc' = "derived"
            /\ err' = err
    /\ UNCHANGED <<dfs, df_demographic, df_response, df_questionnaire,
                   df_mortality, df_dietary, outside>>

\* lines 160-172: exclusion and projection
Project ==
    /\ pc = "derived"
    /\ columns' = cols_existentes(columns)
    /\ df_merge' = project(exclude(df_merge), cols_existentes(columns))
    /\ pc' = "projected"
    /\ UNCHANGED <<dfs, df_demographic, df_response, df_questionnaire,
                   df_mortality, df_dietary, err, outside>>

\* lines 174-192: text columns
FillText ==
    /\ pc = "projected"
    /\ df_merge' = fill_text(df_merge, columns)
    /\ pc' = "text_filled"
    /\ UNCHANGED <<dfs, df_demographic, df_response, df_questionnaire,
                   df_mortality, df_dietary, columns, err, outside>>

\* lines 194-198: numeric columns, then return
FillNumeric ==
    /\ pc = "text_filled"
    /\ df_merge' = fill_numeric(df_merge, columns)
    /\ pc' = "done"
    /\ UNCHANGED <<dfs, df_demographic, df_response, df_questionnaire,
                   df_mortality, df_dietary, columns, err, outside>>

Next ==
    \/ Rename
    \/ Recode
    \/ CleanIds
    \/ Merge
    \/ DeriveACR
    \/ DeriveEGFR
    \/ Project
    \/ FillText
    \/ FillNumeric

Spec == Init /\ [][Next]_vars

---------------------------------------------------------------------------
(* build_merged_dataframe and its callers: etl.py lines 41-55 and 201-203,  *)
(* main.py lines 272, 299 and 347                                          *)

\* the dictionary display of lines 50-54, in evaluation order
files ==
    <<[key |-> "demographic", name |-> "demographics_unclean.csv"],
      [key |-> "dietary", name |-> "dietary_unclean.csv"],
      [key |-> "response", name |-> "response_unclean.csv"],
      [key |-> "questionnaire", name |-> "questionnaire_unclean.csv"],
      [key |-> "mortality", name |-> "mortality_unclean.csv"]>>

FileNames == {files[i].name : i \in DOMAIN files}

\* path.exists()
exists(disk, name) == name \in DOMAIN disk

\* variant: the error names the file that is read first
first_listed(disk) == files[1].name

\* the file whose _csv call raises: the first one, in the order of the
\* display, that does not exist
first_missing(disk) ==
    files[CHOOSE i \in DOMAIN files :
              /\ ~exists(disk, files[i].name)
              /\ \A j \in 1..(i - 1) : exists(disk, files[j].name)].name

\* read_inputs when every _csv call returns
read_inputs(disk) ==
    [demographic |-> disk["demographics_unclean.csv"],
     dietary |-> disk["dietary_unclean.csv"],
     response |-> disk["response_unclean.csv"],
     questionnaire |-> disk["questionnaire_unclean.csv"],
     mortality |-> disk["mortality_unclean.csv"]]

\* the input dictionary of a call whose read_inputs has not returned
unread ==
    [demographic |-> <<>>, dietary |-> <<>>, response |-> <<>>,
     questionnaire |-> <<>>, mortality |-> <<>>]

\* lines 47-55 and 203: the five files are read in order; the first missing
\* one raises and nothing is handed to run_transformations
ReadInputs ==
    /\ pc = "call"
    /\ IF \A n \in FileNames : exists(data, n)
       THEN /\ dfs' = read_inputs(data)
            /\ pc' = "start"
            /\ UNCHANGED <<err, message>>
       ELSE /\ pc' = "error"
            /\ err' = "FileNotFoundError"
            /\ message' = <<"No se encontró el archivo: ", first_missing(data)>>
            /\ dfs' = dfs
    /\ UNCHANGED <<df_demographic, df_response, df_questionnaire, df_mortality,
                   df_dietary, df_merge, columns, data, results>>

\* what a call gives its caller: the returned table, or the exception
outcome ==
    IF pc = "done"
    THEN [returned |-> TRUE, table |-> df_merge, columns |-> columns,
          err |-> "none", message |-> <<>>]
    ELSE [returned |-> FALSE, table |-> <<>>, columns |-> <<>>,
          err |-> err, message |-> message]

\* number of calls a caller makes
MaxCalls == 2

\* an endpoint of main.py calls build_merged_dataframe once more
CallAgain ==
    /\ pc \in {"done", "error"}
    /\ Len(results) + 1 < MaxCalls
    /\ results' = Append(results, outcome)
    /\ pc' = "call"
    /\ dfs' = unread
    /\ df_demographic' = <<>>
    /\ df_response' = <<>>
    /\ df_questionnaire' = <<>>
    /\ df_mortality' = <<>>
    /\ df_dietary' = <<>>
    /\ df_merge' = <<>>
    /\ columns' = <<>>
    /\ err' = "none"
    /\ message' = <<>>
    /\ data' = data

\* run_transformations is called once more with the dictionary it was given
RunAgain ==
    /\ pc \in {"done", "error"}
    /\ err # "FileNotFoundError"
    /\ Len(results) + 1 < MaxCalls
    /\ results' = Append(results, outcome)
    /\ pc' = "start"
    /\ dfs' = dfs
    /\ df_demographic' = <<>>
    /\ df_response' = <<>>
    /\ df_questionnaire' = <<>>
    /\ df_mortality' = <<>>
    /\ df_dietary' = <<>>
    /\ df_merge' = <<>>
    /\ columns' = <<>>
    /\ err' = "none"
    /\ message' = <<>>
    /\ data' = data

\* the subjects of the files of a pipeline input
PipelineProfiles ==
    {Usual,
     Prof(0, Centi(50), 2, 1200, 12000),
     Prof(NaN, Centi(50), 2, 1200, 12000),
     [Usual EXCEPT !.resp = FALSE],
     [Usual EXCEPT !.dm = 4, !.stat = NaN, !.ec = 8, !.o = NaN]}

\* a demographic file that holds the same identifier twice
DuplicateInput ==
    [demographic |-> <<DemoRow(Id5, 1), DemoRow(IdSp5, 1)>>,
     response |-> <<>>, questionnaire |-> <<>>, mortality |-> <<>>,
     dietary |-> <<DietRow(Id5, Centi(27), 2)>>]

PipelineInputs ==
    {DuplicateInput} \cup
    UNION {{CohortInput(f) : f \in [1..n -> PipelineProfiles]} :
              n \in 1..MaxPatients}

\* the files of DATA_PATH that hold the tables of d, the ones in present only
disk_of(d, present) ==
    [n \in present |->
        d[files[CHOOSE i \in DOMAIN files : files[i].name = n].key]]

InitPipeline ==
    /\ \E d \in PipelineInputs : \E present \in SUBSET FileNames :
           data = disk_of(d, present)
    /\ pc = "call"
    /\ dfs = unread
    /\ fresh
    /\ results = <<>>

PipelineNext ==
    \/ ReadInputs
    \/ Next
    \/ CallAgain
    \/ RunAgain

SpecPipeline == InitPipeline /\ [][PipelineNext]_vars

---------------------------------------------------------------------------
(* Value inputs: every kind of code in the recoded columns, missing values  *)
(* and excluded rows in the numeric columns                                 *)

\* number of subjects in a fill input
MaxFillRows == 4

\* a subject of a value input: the rows of the subject, the kind of its
\* identifier ("n" a number, "I-" prefixed, " " blank) and whether the codes
\* of its demographic row are known to the recode tables
Subject(p, id, known) == [p |-> p, id |-> id, known |-> known]

raw_id(kind, i) ==
    CASE kind = "I-" -> [s |-> <<"I", "-", Digits[i + 1]>>]
      [] kind = " " -> IdBlank
      [] OTHER -> PatientId(i)

relabel(table, f) ==
    [k \in DOMAIN table |->
        [table[k] EXCEPT
            !["SEQN_new"] = raw_id(f[table[k]["SEQN_new"].n].id,
                                   table[k]["SEQN_new"].n)]]

\* demographic codes 9, missing and 77 for ethnicity, education and country
unknown_codes(table, f) ==
    [k \in DOMAIN table |->
        IF f[k].known THEN table[k]
        ELSE [table[k] EXCEPT !["RIDRETH1"] = 9, !["DMDEDUC2"] = NaN,
                              !["DMDBORN4"] = 77]]

ValueInput(f) ==
    LET d == CohortInput([i \in DOMAIN f |-> f[i].p])
    IN  [demographic |-> relabel(unknown_codes(d.demographic, f), f),
         response |-> relabel(d.response, f),
         questionnaire |-> relabel(d.questionnaire, f),
         mortality |-> relabel(d.mortality, f),
         dietary |-> relabel(d.dietary, f)]

MaritalCodes == {1, 2, 3, 4, 5, 6, 12, 77, 99, 8, NaN}

RecodeSubjects ==
    {Subject([Usual EXCEPT !.ec = e], "n", TRUE) : e \in MaritalCodes} \cup
    {Subject([Usual EXCEPT !.dm = c], "n", TRUE) : c \in {3, 4}} \cup
    {Subject([Usual EXCEPT !.stat = NaN], "n", TRUE),
     Subject([Usual EXCEPT !.mort = FALSE, !.quest = FALSE], "n", TRUE),
     Subject([Usual EXCEPT !.sex = 3], "n", TRUE),
     Subject(Usual, " ", TRUE),
     Subject(Usual, "n", FALSE)}

FillSubjects ==
    {Subject(Usual, "n", TRUE),
     Subject([Usual EXCEPT !.o = Centi(70) + 13], "n", TRUE),
     Subject([Usual EXCEPT !.o = NaN], "n", TRUE),
     Subject([Usual EXCEPT !.resp = FALSE], "n", TRUE),
     Subject([Usual EXCEPT !.o = Centi(20)], "I-", TRUE)}

InitRecode ==
    \E n \in 1..MaxPatients : \E f \in [1..n -> RecodeSubjects] :
        dfs = ValueInput(f)

InitFill ==
    \E n \in 1..MaxFillRows : \E f \in [1..n -> FillSubjects] :
        dfs = ValueInput(f)

InitValues ==
    /\ InitRecode \/ InitFill
    /\ pc = "start"
    /\ fresh
    /\ data = <<>>
    /\ results = <<>>

SpecValues == InitValues /\ [][Next]_vars

---------------------------------------------------------------------------
(* Vocabulary of the properties *)

\* the normalized (stringified, trimmed) identifiers of an input source, in order
InputIds(src) ==
    [i \in DOMAIN dfs[src] |-> strip(astype_str(dfs[src][i]["SEQN_new"]))]

HasDuplicate(ids) == \E i, j \in DOMAIN ids : i # j /\ ids[i] = ids[j]

Count(seq, x) == Cardinality({i \in DOMAIN seq : seq[i] = x})

OutputIds == [i \in DOMAIN df_merge |-> df_merge[i]["id"]]

Excluded(id) == Len(id) >= 2 /\ id[1] = "I" /\ id[2] = "-"

Returned == pc = "done"

\* the positions at which a merged table exists
AfterMerge == {"merged", "acr", "derived", "projected", "text_filled", "done"}

BeforeMerge == {"start", "renamed", "recoded", "cleaned"}

AnchorDuplicate ==
    \/ HasDuplicate(InputIds("demographic"))
    \/ HasDuplicate(InputIds("response"))
    \/ HasDuplicate(InputIds("questionnaire"))
    \/ HasDuplicate(InputIds("mortality"))

---------------------------------------------------------------------------
(* C1: the output identifiers are, as a multiset, exactly the normalized       *)
(* demographic identifiers that do not start with "I-", whenever a table is    *)
(* returned.                                                                   *)
C1_LeftJoinCompleteness ==
    Returned =>
        \A x \in Range(OutputIds) \cup Range(InputIds("demographic")) :
            Count(OutputIds, x) =
                IF Excluded(x) THEN 0 ELSE Count(InputIds("demographic"), x)

(* C2: in a returned table no numeric cell is missing and no text cell is      *)
(* missing or empty, also when a column has no value at all.                   *)
C2_TotalFillIn ==
    Returned =>
        \A i \in DOMAIN df_merge : \A c \in Range(columns) :
            IF c \in TextColumns
            THEN df_merge[i][c] # NA /\ df_merge[i][c] # <<>>
            ELSE df_merge[i][c] # NaN

(* C3: when the demographic, response, questionnaire or mortality source holds *)
(* two rows with the same normalized identifier, the run never has a merged    *)
(* table and never returns: once past the clean-up it has raised the           *)
(* join-cardinality error.                                                     *)
C3_DuplicateKeyRaises ==
    AnchorDuplicate =>
        /\ pc \notin AfterMerge
        /\ df_merge = <<>>
        /\ pc \notin BeforeMerge => pc = "error" /\ err = "MergeError"

C3_Witness ==
    /\ pc = "error"
    /\ err = "MergeError"
    /\ HasDuplicate(InputIds("mortality"))
    /\ ~HasDuplicate(InputIds("demographic"))
    /\ ~HasDuplicate(InputIds("response"))
    /\ ~HasDuplicate(InputIds("questionnaire"))
    /\ dfs.mortality[1]["SEQN_new"] # dfs.mortality[2]["SEQN_new"]
    /\ Range(InputIds("mortality")) \cap Range(InputIds("demographic")) = {}
    /\ dfs.demographic # <<>>

\* the first dietary input row whose normalized identifier is x
FirstDietary(x) ==
    dfs.dietary[CHOOSE i \in DOMAIN dfs.dietary :
                    /\ InputIds("dietary")[i] = x
                    /\ \A j \in 1..(i - 1) : InputIds("dietary")[j] # x]

SexLabel(code) ==
    IF code = 1 THEN <<"Hombre">> ELSE IF code = 2 THEN <<"Mujer">> ELSE NA

(* C4: deduplication keeps, for every dietary identifier, exactly one row, the *)
(* first in input order; the dietary join then never raises, and the merged    *)
(* and the returned row of that identifier carry the age and sex of that first *)
(* row (a missing age or sex of the first row is filled like any other         *)
(* missing value).                                                             *)
C4_DietaryFirstWins ==
    /\ pc \notin {"start", "renamed", "recoded"} =>
          /\ is_unique(df_dietary)
          /\ \A x \in Range(InputIds("dietary")) :
                \E k \in DOMAIN df_dietary :
                    /\ df_dietary[k]["id"] = x
                    /\ df_dietary[k]["edad_años"] = FirstDietary(x)["RIDAGEYR"]
                    /\ df_dietary[k]["sexo"] =
                           SexLabel(FirstDietary(x)["RIAGENDR"])
          /\ \A k \in DOMAIN df_dietary :
                df_dietary[k]["id"] \in Range(InputIds("dietary"))
    /\ err = "MergeError" => AnchorDuplicate
    /\ pc \in {"merged", "done"} =>
          \A i \in DOMAIN df_merge :
              df_merge[i]["id"] \in Range(InputIds("dietary")) =>
                  LET first == FirstDietary(df_merge[i]["id"])
                  IN  /\ pc = "merged" \/ first["RIDAGEYR"] # NaN =>
                            df_merge[i]["edad_años"] = first["RIDAGEYR"]
                      /\ pc = "merged" \/ SexLabel(first["RIAGENDR"]) # NA =>
                            df_merge[i]["sexo"] = SexLabel(first["RIAGENDR"])

C4_Witness ==
    /\ Returned
    /\ Len(dfs.dietary) >= 3
    /\ \A i \in DOMAIN dfs.dietary :
          InputIds("dietary")[i] = InputIds("dietary")[1]
    /\ dfs.dietary[1]["SEQN_new"] # dfs.dietary[2]["SEQN_new"]
    /\ dfs.dietary[1]["RIDAGEYR"] # dfs.dietary[2]["RIDAGEYR"]
    /\ \E i \in DOMAIN df_merge :
          /\ df_merge[i]["id"] = InputIds("dietary")[1]
          /\ df_merge[i]["edad_años"] = dfs.dietary[1]["RIDAGEYR"]

(* C5: the ratio score is missing, and the row has no A1/A2/A3 label, whenever *)
(* urinary albumin is missing, urinary creatinine is missing or the rescaled   *)
(* urinary creatinine is zero.                                                 *)
C5_RatioMissingWhenUndefined ==
    pc = "acr" =>
        \A i \in DOMAIN df_merge :
            (\/ df_merge[i]["albumina_urinaria(mg/L)"] = NaN
             \/ df_merge[i]["creatinina_urinaria(g/L)"] = NaN
             \/ df_merge[i]["creatinina_urinaria(g/L)"] = 0) =>
                /\ df_merge[i]["ACR"] = NaN
                /\ df_merge[i]["categoria_ACR"] = NA

(* C6: with all five sources present and unique identifiers, the run raises    *)
(* no error whatever the values of a row are, and a row whose sex is neither   *)
(* "Mujer" nor "Hombre" has a missing filtration score before reconciliation.  *)
C6_TotalOverRowValues ==
    ~AnchorDuplicate =>
        /\ pc # "error"
        /\ err = "none"
        /\ pc = "derived" =>
              \A i \in DOMAIN df_merge :
                  df_merge[i]["sexo"] \notin {<<"Mujer">>, <<"Hombre">>} =>
                      df_merge[i]["eGFR"] = NaN

(* C7: before reconciliation the ratio category is A1 exactly when the score   *)
(* is below 30, A2 exactly when it is from 30 to 300 inclusive, A3 exactly     *)
(* when it is above 300; a score that is not missing has one of the three      *)
(* labels and a missing score has none.                                        *)
C7_RatioTiers ==
    pc \in {"acr", "derived", "projected"} =>
        \A i \in DOMAIN df_merge :
            LET a == df_merge[i]["ACR"]
                c == df_merge[i]["categoria_ACR"]
            IN  IF a = NaN THEN c = NA
                ELSE /\ c \in {<<"A1">>, <<"A2">>, <<"A3">>}
                     /\ c = <<"A1">> <=> a < Centi(30)
                     /\ c = <<"A2">> <=> (Centi(30) <= a /\ a <= Centi(300))
                     /\ c = <<"A3">> <=> a > Centi(300)

C7_Witness ==
    /\ pc = "acr"
    /\ \E i, j \in DOMAIN df_merge :
          /\ df_merge[i]["ACR"] = Centi(300)
          /\ df_merge[i]["categoria_ACR"] = <<"A2">>
          /\ df_merge[j]["ACR"] = Centi(300) + 10
          /\ df_merge[j]["categoria_ACR"] = <<"A3">>

\* the tier of a filtration score, from the six intervals of the specification
Tier(g) ==
    IF g >= Centi(90) THEN <<"G1">>
    ELSE IF g >= Centi(60) THEN <<"G2">>
    ELSE IF g >= Centi(45) THEN <<"G3a">>
    ELSE IF g >= Centi(30) THEN <<"G3b">>
    ELSE IF g >= Centi(15) THEN <<"G4">>
    ELSE <<"G5">>

(* C8: before reconciliation every filtration score that is not missing has    *)
(* exactly the label of its interval: G1 from 90, G2 in [60,90), G3a in        *)
(* [45,60), G3b in [30,45), G4 in [15,30), G5 below 15; a missing score has    *)
(* no label.                                                                   *)
C8_FiltrationTiers ==
    pc \in {"derived", "projected"} =>
        \A i \in DOMAIN df_merge :
            LET g == df_merge[i]["eGFR"]
                c == df_merge[i]["categoria_eGFR"]
            IN  IF g = NaN THEN c = NA ELSE c = Tier(g)

C8_Witness ==
    /\ pc = "derived"
    /\ \E i, j \in DOMAIN df_merge :
          /\ df_merge[i]["eGFR"] = Centi(90)
          /\ df_merge[i]["categoria_eGFR"] = <<"G1">>
          /\ df_merge[j]["eGFR"] = Centi(90) - 10
          /\ df_merge[j]["categoria_eGFR"] = <<"G2">>

(* C9 as stated: in a returned table, two rows with equal eGFR have equal      *)
(* categoria_eGFR and two rows with equal ACR have equal categoria_ACR.        *)
C9_CategoryFunctionOfScore ==
    Returned =>
        \A i, j \in DOMAIN df_merge :
            /\ df_merge[i]["eGFR"] = df_merge[j]["eGFR"] =>
                  df_merge[i]["categoria_eGFR"] = df_merge[j]["categoria_eGFR"]
            /\ df_merge[i]["ACR"] = df_merge[j]["ACR"] =>
                  df_merge[i]["categoria_ACR"] = df_merge[j]["categoria_ACR"]

(* C9 amended: in a returned table, two rows with equal eGFR (ACR) have equal  *)
(* categoria_eGFR (categoria_ACR) provided neither label is the Reconciler's   *)
(* sentinel "G1(por media)" ("A1(por media)").                                 *)
C9_CategoryFunctionOfScoreUnlessFilled ==
    Returned =>
        \A i, j \in DOMAIN df_merge :
            /\ (/\ df_merge[i]["eGFR"] = df_merge[j]["eGFR"]
                /\ df_merge[i]["categoria_eGFR"] # <<"G1(por media)">>
                /\ df_merge[j]["categoria_eGFR"] # <<"G1(por media)">>) =>
                  df_merge[i]["categoria_eGFR"] = df_merge[j]["categoria_eGFR"]
            /\ (/\ df_merge[i]["ACR"] = df_merge[j]["ACR"]
                /\ df_merge[i]["categoria_ACR"] # <<"A1(por media)">>
                /\ df_merge[j]["categoria_ACR"] # <<"A1(por media)">>) =>
                  df_merge[i]["categoria_ACR"] = df_merge[j]["categoria_ACR"]

C9_Witness ==
    /\ Returned
    /\ \E i, j \in DOMAIN df_merge :
          /\ i # j
          /\ df_merge[i]["eGFR"] = df_merge[j]["eGFR"]
          /\ df_merge[i]["categoria_eGFR"] = <<"G3a">>
          /\ df_merge[j]["categoria_eGFR"] = <<"G3a">>
          /\ df_merge[i]["ACR"] = df_merge[j]["ACR"]
          /\ df_merge[i]["categoria_ACR"] = <<"A3">>
          /\ df_merge[j]["categoria_ACR"] = <<"A3">>

(* C10 as stated: every returned table has the fixed column list, in order,    *)
(* and the list has 37 columns.                                                *)
C10_FixedColumns37 ==
    Returned => columns = columns_merge /\ Len(columns) = 37

(* C10 amended: every returned table has the fixed column list, in order, each *)
(* row has exactly those columns, and the list has 40 columns, as many as the  *)
(* INSERT of the bulk load names.                                              *)
C10_FixedColumns40 ==
    Returned =>
        /\ columns = columns_merge
        /\ Len(columns) = 40
        /\ Len(sql) = Len(columns)
        /\ \A i \in DOMAIN df_merge : DOMAIN df_merge[i] = Range(columns)

C10_Witness ==
    /\ Returned
    /\ df_merge # <<>>
    /\ Len(columns) = 40
    /\ columns[1] = "id"
    /\ columns[40] = "TAD-4"

Absent == FileNames \ DOMAIN data

(* C12: when at least one of the five source files is absent, no             *)
(* transformation step ever runs (the call is before or at its exception,    *)
(* with no input dictionary and no working table), the exception is the      *)
(* not-found error and its message names an absent file, and no call returns *)
(* a table; when all five files are present no not-found error is raised.    *)
C12_MissingFileRaisesNotFound ==
    /\ Absent # {} =>
          /\ pc \in {"call", "error"}
          /\ dfs = unread
          /\ df_demographic = <<>> /\ df_response = <<>>
          /\ df_questionnaire = <<>> /\ df_mortality = <<>>
          /\ df_dietary = <<>> /\ df_merge = <<>> /\ columns = <<>>
          /\ pc = "error" =>
                /\ err = "FileNotFoundError"
                /\ Len(message) = 2
                /\ message[2] \in Absent
                /\ ~outcome.returned
                /\ outcome.table = <<>>
          /\ \A k \in DOMAIN results :
                /\ ~results[k].returned
                /\ results[k].table = <<>>
                /\ results[k].err = "FileNotFoundError"
                /\ results[k].message[2] \in Absent
    /\ Absent = {} =>
          /\ err # "FileNotFoundError"
          /\ message = <<>>
          /\ \A k \in DOMAIN results : results[k].err # "FileNotFoundError"

C12_Witness ==
    /\ Absent = {"response_unclean.csv", "mortality_unclean.csv"}
    /\ pc = "error"
    /\ err = "FileNotFoundError"
    /\ message[2] = "response_unclean.csv"
    /\ Len(data["demographics_unclean.csv"]) = 2
    /\ Len(results) = 1

\* the k-th smallest of the values v (a sequence without missing values)
Kth(v, k) ==
    CHOOSE x \in Range(v) :
        /\ Cardinality({i \in DOMAIN v : v[i] < x}) < k
        /\ Cardinality({i \in DOMAIN v : v[i] <= x}) >= k

\* the median of the values v rounded to 1 decimal; missing when v is empty
RoundedMedian(v) ==
    LET n == Len(v)
    IN  IF n = 0 THEN NaN
        ELSE IF n % 2 = 1 THEN round1(Kth(v, (n + 1) \div 2))
        ELSE IF Kth(v, n \div 2 + 1) = Inf THEN Inf
        ELSE 10 * RoundDiv(Kth(v, n \div 2) + Kth(v, n \div 2 + 1), 20)

\* the values of column c that are not missing, over the rows of df whose
\* identifier does not start with "I-"
Present(df, c) ==
    LET rows == SelectSeq([i \in DOMAIN df |-> i],
                          LAMBDA i : ~Excluded(df[i]["id"]) /\ df[i][c] # NaN)
    IN  [k \in DOMAIN rows |-> df[rows[k]][c]]

\* the raw weights (BMXWT) of the response rows of subjects that are kept
KeptWeights ==
    LET rows == SelectSeq([k \in DOMAIN dfs.response |-> k],
                          LAMBDA k : /\ ~Excluded(InputIds("response")[k])
                                     /\ dfs.response[k]["BMXWT"] # NaN)
    IN  [k \in DOMAIN rows |-> dfs.response[rows[k]]["BMXWT"]]

(* C13: the numeric fill leaves the rows and every cell that is not missing  *)
(* as they are and gives every missing cell of a numeric column one value,   *)
(* the median, rounded to 1 decimal, of the column's non-missing values over *)
(* the rows that are not excluded by the "I-" prefix (no value when the      *)
(* column has none); no excluded row is in the table, and in the returned    *)
(* table a weight is the raw weight of the subject or the rounded median of  *)
(* the raw weights of the kept subjects.                                     *)
C13_MedianFill ==
    [][pc = "text_filled" =>
          /\ DOMAIN df_merge' = DOMAIN df_merge
          /\ \A i \in DOMAIN df_merge :
                /\ ~Excluded(df_merge[i]["id"])
                /\ \A c \in Range(columns) \ TextColumns :
                      df_merge'[i][c] =
                          IF df_merge[i][c] = NaN
                          THEN RoundedMedian(Present(df_merge, c))
                          ELSE df_merge[i][c]
                /\ \/ df_merge'[i]["peso(kg)"] \in Range(KeptWeights)
                   \/ df_merge'[i]["peso(kg)"] = RoundedMedian(KeptWeights)]_vars

C13_Witness ==
    /\ Returned
    /\ Len(dfs.demographic) = 4
    /\ \E k \in DOMAIN dfs.response :
          /\ Excluded(InputIds("response")[k])
          /\ dfs.response[k]["BMXWT"] = Centi(20)
    /\ Len(df_merge) = 3
    /\ \E i, j, k \in DOMAIN df_merge :
          /\ df_merge[i]["peso(kg)"] = Centi(70)
          /\ df_merge[j]["peso(kg)"] = Centi(70) + 13
          /\ df_merge[k]["peso(kg)"] = Centi(70) + 10
          /\ \E r \in DOMAIN dfs.response :
                /\ InputIds("response")[r] = df_merge[k]["id"]
                /\ dfs.response[r]["BMXWT"] = NaN

\* the label of a raw marital code, as the specification lists them
MaritalLabel(raw) ==
    CASE raw \in {1, 6} -> <<"Casado/Viviendo con pareja">>
      [] raw \in {2, 3, 4} -> <<"Viudo/Divorciado/Separado">>
      [] raw \in {5, 12} -> <<"Nunca casado">>
      [] raw = 77 -> <<"Negado">>
      [] raw = 99 -> <<"No sé">>
      [] OTHER -> NA

\* the positions of the demographic input rows that are not excluded
KeptDemographic ==
    SelectSeq([i \in DOMAIN dfs.demographic |-> i],
              LAMBDA i : ~Excluded(InputIds("demographic")[i]))

(* C14: once recoded, the marital status of every demographic row is the     *)
(* label of its raw code: 1 and 6 "Casado/Viviendo con pareja"; 2, 3 and 4   *)
(* "Viudo/Divorciado/Separado"; 5 and 12 "Nunca casado"; 77 "Negado"; 99     *)
(* "No sé"; any other code missing. In the filled and in the returned table  *)
(* the rows are the kept demographic rows in order, each with that label, or *)
(* with "No definido" where the label is missing.                            *)
C14_MaritalRecode ==
    /\ pc \notin {"call", "start", "renamed"} =>
          /\ Len(df_demographic) = Len(dfs.demographic)
          /\ \A i \in DOMAIN dfs.demographic :
                df_demographic[i]["estado_civil"] =
                    MaritalLabel(dfs.demographic[i]["DMDMARTL"])
    /\ pc \in {"text_filled", "done"} =>
          /\ Len(df_merge) = Len(KeptDemographic)
          /\ \A k \in DOMAIN df_merge :
                LET label ==
                        MaritalLabel(
                            dfs.demographic[KeptDemographic[k]]["DMDMARTL"])
                IN  df_merge[k]["estado_civil"] =
                        IF label = NA THEN <<"No definido">> ELSE label

C14_Witness ==
    /\ Returned
    /\ Len(df_merge) = 2
    /\ dfs.demographic[1]["DMDMARTL"] = 5
    /\ dfs.demographic[2]["DMDMARTL"] = 3
    /\ df_merge[1]["estado_civil"] = <<"Nunca casado">>
    /\ df_merge[2]["estado_civil"] = <<"Viudo/Divorciado/Separado">>

\* the sentinel of a text column, as the specification lists them
SentinelOf(c) ==
    CASE c \in {"mortalidad", "estado_civil", "sexo", "pais_nacimiento"} ->
             <<"No definido">>
      [] c = "grupo_etnico" -> <<"Sin etnia">>
      [] c \in {"DM", "HTA", "IC", "EC", "ACV", "CA"} -> <<"Sin diagnostico">>
      [] c = "causa_muerte" -> <<"Sin causa">>
      [] c = "categoria_ACR" -> <<"A1(por media)">>
      [] c = "categoria_eGFR" -> <<"G1(por media)">>
      [] OTHER -> <<"Sin categoria">>

Sentinels == {SentinelOf(c) : c \in TextColumns}

\* a text cell with no value: missing, empty or blank
Blank(x) == x = NA \/ \A k \in DOMAIN x : x[k] = " "

\* every cell of the coded column c of the recoded table new is missing when
\* the code of the table old is no key of the recode table d, a label if it is
Looked(old, new, c, d) ==
    /\ Len(new) = Len(old)
    /\ \A i \in DOMAIN old :
          IF old[i][c] \in DOMAIN d
          THEN new[i][c] # NA /\ new[i][c] \notin Sentinels
          ELSE new[i][c] = NA

(* C15: the recode step raises nothing and turns every code that is no key   *)
(* of its recode table into a missing value; the text fill replaces every    *)
(* missing, empty or blank text cell by the sentinel of its column ("No      *)
(* definido", "Sin etnia", "Sin diagnostico", "Sin causa", "A1(por media)",  *)
(* "G1(por media)", else "Sin categoria") and gives every other text cell    *)
(* its trimmed value, so that a cell holds a sentinel only if it had no      *)
(* value.                                                                    *)
C15_AbsentCodesAndSentinels ==
    [][/\ pc = "renamed" =>
              /\ pc' = "recoded"
              /\ err' = "none"
              /\ \A c \in DOMAIN reco \ {"estado_civil"} :
                    Looked(df_demographic, df_demographic', c, reco[c])
              /\ \A c \in DOMAIN reco_2 :
                    Looked(df_questionnaire, df_questionnaire', c, reco_2[c])
              /\ \A c \in DOMAIN reco_3 :
                    Looked(df_mortality, df_mortality', c, reco_3[c])
              /\ \A c \in DOMAIN reco_4 :
                    Looked(df_dietary, df_dietary', c, reco_4[c])
       /\ pc = "projected" =>
              /\ pc' = "text_filled"
              /\ Len(df_merge') = Len(df_merge)
              /\ \A i \in DOMAIN df_merge :
                    \A c \in Range(columns) \cap TextColumns :
                        IF Blank(df_merge[i][c])
                        THEN df_merge'[i][c] = SentinelOf(c)
                        ELSE /\ df_merge'[i][c] = rstrip(lstrip(df_merge[i][c]))
                             /\ df_merge'[i][c] \notin Sentinels]_vars

C15_Witness ==
    /\ pc = "text_filled"
    /\ Len(df_merge) = 2
    /\ Len(dfs.demographic) = 2
    /\ Len(dfs.questionnaire) = 2
    /\ dfs.questionnaire[1]["BPQ020"] = 3
    /\ df_merge[1]["DM"] = <<"Frontera">>
    /\ df_merge[1]["HTA"] = <<"Sin diagnostico">>
    /\ df_merge[1]["consumo_alcohol"] = <<"Sin categoria">>
    /\ dfs.demographic[2]["RIDRETH1"] = 9
    /\ df_merge[2]["grupo_etnico"] = <<"Sin etnia">>
    /\ df_merge[2]["pais_nacimiento"] = <<"No definido">>
    /\ df_merge[2]["nivel_educativo"] = <<"Sin categoria">>
    /\ df_merge[2]["sexo"] = <<"Mujer">>

=============================================================================
